---------------------------- MODULE Spec2Model ----------------------------
(***************************************************************************)
(* download_discord_media.py: scan a guild's text channels over a date     *)
(* window, save every media attachment once, and keep a durable manifest   *)
(* (SQLite table "downloads") of what has been saved.                      *)
(*                                                                         *)
(* Instants are integers counted in ticks, the resolution of a datetime    *)
(* (one microsecond in the program).  The scale is reduced: a second has   *)
(* TicksPerSecond ticks and a day SecondsPerDay seconds.                   *)
(***************************************************************************)
EXTENDS Integers, Sequences, FiniteSets, TLC

\* ------------------------------------------------------------------ bounds
TicksPerSecond == 2
SecondsPerDay == 2
MaxDay == 1
HashSpace == 5

\* --------------------------------------------------------------- constants
PadSeconds == 1

Second == TicksPerSecond
Day == SecondsPerDay * TicksPerSecond

\* timedelta(hours=23, minutes=59, seconds=59, microseconds=999999)
EndOfDayDelta == Day - 1

\* datetime.now(timezone.utc): every message of the history is in the past
Now == (MaxDay + 1) * Day + 1

\* ------------------------------------------------------------ pure helpers
\* str.lower() on the tokens that occur in content types and file names
Lower(s) ==
  CASE s = "IMAGE" -> "image"
    [] s = "Video" -> "video"
    [] s = "PNG"   -> "png"
    [] s = "MP4"   -> "mp4"
    [] s = "JPG"   -> "jpg"
    [] OTHER       -> s

\* Path(name).suffix, a file name being the sequence of its dot-separated parts
Suffix(name) ==
  IF Len(name) >= 2 /\ ~(Len(name) = 2 /\ name[1] = "") /\ name[Len(name)] # ""
  THEN name[Len(name)]
  ELSE ""

image_exts == {"jpg", "jpeg", "png", "gif", "webp", "bmp", "tiff", "heic"}
video_exts == {"mp4", "mov", "m4v", "webm", "mkv", "avi"}

\* faulty variant: content type and extension are compared as they are given
is_media_NoLower(attachment) ==
  LET ct == attachment.content_type
      ext == Suffix(attachment.filename)
  IN \/ (Len(ct) >= 2 /\ ct[1] \in {"image", "video"})
     \/ ext \in image_exts
     \/ ext \in video_exts

\* is_media: content type <<major, minor>> (<<>> when absent), else extension
is_media(attachment) ==
  LET ct == attachment.content_type
      ext == Lower(Suffix(attachment.filename))
  IN \/ (Len(ct) >= 2 /\ Lower(ct[1]) \in {"image", "video"})
     \/ ext \in image_exts
     \/ ext \in video_exts

\* str(int): the text of an integer id
Str(n) == <<"str", n>>

\* datetime.astimezone(timezone.utc).isoformat()
IsoFormat(t) == <<"iso", t>>

\* hashlib.sha256(base).hexdigest()[:16], on the reduced digest space
Sha256Hex16(base) == (7 * base[1] + 3 * base[2] + base[3][2]) % HashSpace

compute_filename(author_id, created_at, attachment_id, original_name) ==
  LET ext == Lower(Suffix(original_name))
      base == <<author_id, attachment_id, IsoFormat(created_at)>>
  IN <<Sha256Hex16(base), ext>>

\* parse_date_utc: a date string is [wellformed, day]; UTC midnight of the day
DateStrings == [wellformed : {TRUE}, day : 0..MaxDay] \cup {[wellformed |-> FALSE, day |-> 0]}
NoDate == [wellformed |-> TRUE, day |-> -1]
ParseOk(date_str) == date_str.wellformed
parse_date_utc(date_str) == date_str.day * Day

\* run(): the window and the padded query bounds
EffectiveEnd(date_end) ==
  IF date_end # NoDate THEN parse_date_utc(date_end) + EndOfDayDelta ELSE Now
QueryAfter(start) == start - PadSeconds * Second
\* faulty variant: the upper query bound is not padded
QueryBefore_NoPad(end) == end
QueryBefore(end) == end + PadSeconds * Second

\* faulty variant: no re-check, whatever the padded query returns is accepted
InWindow_NoRecheck(created, start, end) ==
  QueryAfter(start) < created /\ created < QueryBefore(end)

\* the boundary re-check of a message, start_dt <= created <= end_dt
InWindow(created, start, end) == start <= created /\ created <= end


\* db_has_attachment: SELECT 1 FROM downloads WHERE attachment_id = str(id)
db_has_attachment(rows, attachment_id) ==
  \E r \in rows : r.attachment_id = Str(attachment_id)

\* faulty variant: INSERT OR REPLACE, the later record overwrites the earlier
db_insert_Replace(rows, attachment_id, message_id, channel_id, guild_id, url, filename, created_at_utc) ==
  {r \in rows : r.attachment_id # Str(attachment_id)}
    \cup {[attachment_id  |-> Str(attachment_id),
           message_id     |-> Str(message_id),
           channel_id     |-> Str(channel_id),
           guild_id       |-> Str(guild_id),
           url            |-> url,
           filename       |-> filename,
           created_at_utc |-> IsoFormat(created_at_utc)]}

\* db_insert: INSERT OR IGNORE on the primary key attachment_id, then commit
db_insert(rows, attachment_id, message_id, channel_id, guild_id, url, filename, created_at_utc) ==
  IF \E r \in rows : r.attachment_id = Str(attachment_id)
  THEN rows
  ELSE rows \cup {[attachment_id  |-> Str(attachment_id),
                   message_id     |-> Str(message_id),
                   channel_id     |-> Str(channel_id),
                   guild_id       |-> Str(guild_id),
                   url            |-> url,
                   filename       |-> filename,
                   created_at_utc |-> IsoFormat(created_at_utc)]}

\* ------------------------------------------------- the guild being scanned
Att(id, filename, content_type) ==
  [id |-> id, filename |-> filename, content_type |-> content_type, url |-> <<"cdn", id>>]
Msg(id, author_id, created_at, attachments) ==
  [id |-> id, author_id |-> author_id, created_at |-> created_at, attachments |-> attachments]

A1 == Att(11, <<"clip", "MP4">>, <<>>)
A2 == Att(12, <<"blob">>, <<"IMAGE", "png">>)
A3 == Att(13, <<"report", "pdf">>, <<"application", "pdf">>)
A4 == Att(14, <<"archive", "zip">>, <<>>)
A5 == Att(15, <<"movie", "mp4">>, <<"video", "mp4">>)
A7 == Att(17, <<"x", "gif">>, <<"image", "gif">>)

\* channel histories, oldest first
Guild ==
  [id |-> 41,
   text_channels |-> <<
     [id |-> 31, read_message_history |-> TRUE,
      messages |-> << Msg(21, 1, Day - 1, <<A1>>),
                      Msg(22, 1, Day, <<>>) >>],
     [id |-> 32, read_message_history |-> FALSE,
      messages |-> << Msg(26, 1, Day, <<A7>>) >>],
     [id |-> 33, read_message_history |-> TRUE,
      messages |-> << Msg(23, 2, Day, <<A2, A3, A5>>),
                      Msg(24, 3, 2 * Day - 1, <<A4>>) >>] >>]

\* channels = [c for c in guild.text_channels if ...read_message_history]
Channels == SelectSeq(Guild.text_channels, LAMBDA c : c.read_message_history)

\* bounded_history: channel.history(after, before, oldest_first), exclusive bounds
bounded_history(channel, after, before) ==
  SelectSeq(channel.messages, LAMBDA m : after < m.created_at /\ m.created_at < before)

\* the download directory: a set of files [name, src, complete], one per name

\* faulty variant: the destination is never looked up
dest_exists_Never(files, name) == FALSE

\* dest.exists()
dest_exists(files, name) == \E f \in files : f.name = name

\* open(dest, "wb") followed by write: the file is replaced
WriteFile(files, name, src, complete) ==
  {f \in files : f.name # name} \cup {[name |-> name, src |-> src, complete |-> complete]}

\* ------------------------------------------------------------------- state
VARIABLES
  db,               \* the manifest file: [created, rows]
  disk,             \* the download directory
  conn,             \* the manifest connection: "none", "open", "closed"
  pc,               \* where the process is
  start_dt, end_dt, \* the inclusive window of the run
  ci, mi, ai,       \* position: channel, message of its stream, attachment
  total_seen, total_downloaded, total_skipped,
  outcome,          \* history: what happened to the attachment handled last
  failed,           \* history: attachment ids whose save raised in this run
  chanFailed,       \* history: channels abandoned on an exception in this run
  prev,             \* history: the run completed just before this one
  summary,          \* what the run has printed as its summary: <<>> or the counters
  reached,          \* history: media attachments the scan has reached in this run
  fresh,            \* history: manifest rows inserted after a save in this run
  other,            \* the locals of a second activation of on_ready, suspended
  probe             \* the last call made from outside, with its arguments

vars == <<db, disk, conn, pc, start_dt, end_dt, ci, mi, ai,
          total_seen, total_downloaded, total_skipped,
          outcome, failed, chanFailed, prev, summary, reached, fresh, other, probe>>

Stopped == {"idle", "fatal", "noguild", "done", "aborted", "crashed", "interrupted"}
Scanning == {"stream", "att", "saving", "saved"}

NoOutcome == [kind |-> "none", att |-> 0]
NoPrev == [valid |-> FALSE, downloaded |-> 0, skipped |-> 0, clean |-> FALSE, failed |-> {}]
NoOther == [pc |-> "off", ci |-> 0, mi |-> 0, ai |-> 0,
            total_seen |-> 0, total_downloaded |-> 0, total_skipped |-> 0]
NoProbe == [op |-> "none"]

after == QueryAfter(start_dt)
before == QueryBefore(end_dt)
CurChannel == Channels[ci]
CurHistory == bounded_history(CurChannel, after, before)
CurMsg == CurHistory[mi]
CurAtt == CurMsg.attachments[ai]
msg_created_utc == CurMsg.created_at
safe_name == compute_filename(CurMsg.author_id, CurMsg.created_at, CurAtt.id, CurAtt.filename)

Init ==
  /\ db = [created |-> FALSE, rows |-> {}]
  /\ disk = {}
  /\ conn = "none"
  /\ pc = "idle"
  /\ start_dt = 0 /\ end_dt = 0
  /\ ci = 0 /\ mi = 0 /\ ai = 0
  /\ total_seen = 0 /\ total_downloaded = 0 /\ total_skipped = 0
  /\ outcome = NoOutcome
  /\ failed = {}
  /\ chanFailed = {}
  /\ prev = NoPrev
  /\ summary = <<>>
  /\ reached = 0 /\ fresh = 0
  /\ other = NoOther
  /\ probe = NoProbe

ResetRun ==
  /\ ci' = 0 /\ mi' = 0 /\ ai' = 0
  /\ total_seen' = 0 /\ total_downloaded' = 0 /\ total_skipped' = 0
  /\ outcome' = NoOutcome
  /\ failed' = {}
  /\ chanFailed' = {}
  /\ summary' = <<>>
  /\ reached' = 0 /\ fresh' = 0
  /\ other' = NoOther

\* a process that ends without the summary leaves the manifest file and the
\* directory; its local variables are gone
Forget ==
  /\ start_dt' = 0 /\ end_dt' = 0
  /\ ResetRun
  /\ prev' = NoPrev
  /\ probe' = NoProbe

\* what the next run remembers of the run that has just completed
Remember(s, e) ==
  IF pc = "done" /\ start_dt = s /\ end_dt = e
  THEN [valid |-> TRUE, downloaded |-> total_downloaded, skipped |-> total_skipped,
        clean |-> failed = {} /\ chanFailed = {}, failed |-> failed]
  ELSE NoPrev

\* faulty variant: the order of the two dates is not checked
Fatal_NoOrderCheck(date_start, date_end, env) ==
  \/ ~ParseOk(date_start)
  \/ (date_end # NoDate /\ ~ParseOk(date_end))
  \/ env # "ok"

\* run(), up to client.start: arguments, dates, environment, storage setup
\* (NoDate: --date-end omitted or empty)
Fatal(date_start, date_end, env) ==
  \/ ~ParseOk(date_start)
  \/ (date_end # NoDate /\ ~ParseOk(date_end))
  \/ EffectiveEnd(date_end) < parse_date_utc(date_start)
  \/ env # "ok"

StartFatal ==
  /\ pc \in Stopped
  /\ \E date_start \in DateStrings, date_end \in DateStrings \cup {NoDate},
        env \in {"ok", "missing", "nonint"} :
       /\ Fatal(date_start, date_end, env)
       /\ probe' = [op |-> "run", date_start |-> date_start, date_end |-> date_end,
                    env |-> env]
  /\ pc' = "fatal"
  /\ conn' = "none"
  /\ start_dt' = 0 /\ end_dt' = 0
  /\ ResetRun
  /\ prev' = NoPrev
  /\ UNCHANGED <<db, disk>>

\* faulty variant: the table is dropped and created again at every start
db_init_Recreate(store) == [created |-> TRUE, rows |-> {}]

\* CREATE TABLE IF NOT EXISTS downloads, CREATE INDEX IF NOT EXISTS: an
\* existing table keeps its rows
db_init(store) == [store EXCEPT !.created = TRUE]

\* (remember: whether the history variable prev is kept for the new run)
Start(remember) ==
  /\ pc \in Stopped
  /\ \E date_start \in DateStrings, date_end \in DateStrings \cup {NoDate} :
       /\ ~Fatal(date_start, date_end, "ok")
       /\ start_dt' = parse_date_utc(date_start)
       /\ end_dt' = EffectiveEnd(date_end)
       /\ prev' = IF remember
                   THEN Remember(parse_date_utc(date_start), EffectiveEnd(date_end))
                   ELSE NoPrev
       /\ probe' = [op |-> "run", date_start |-> date_start, date_end |-> date_end,
                    env |-> "ok"]
  /\ db' = db_init(db)
  /\ conn' = "open"
  /\ pc' = "connecting"
  /\ ResetRun
  /\ UNCHANGED disk

\* client.start fails to log in: the exception leaves run()
LoginFailure ==
  /\ pc = "connecting"
  /\ pc' = "fatal"
  /\ Forget
  /\ UNCHANGED <<db, disk, conn>>

\* on_ready, the guild is not found: close the client and return
OnReadyNoGuild ==
  /\ pc = "connecting"
  /\ pc' = "noguild"
  /\ Forget
  /\ UNCHANGED <<db, disk, conn>>

\* on_ready, the guild is found: counters to zero, first channel
OnReady ==
  /\ pc = "connecting"
  /\ pc' = "stream"
  /\ ci' = 1 /\ mi' = 1 /\ ai' = 0
  /\ total_seen' = 0 /\ total_downloaded' = 0 /\ total_skipped' = 0
  /\ UNCHANGED <<db, disk, conn, start_dt, end_dt, outcome, failed, chanFailed, prev, summary, reached, fresh, other, probe>>

\* async for msg in bounded_history(...): one message, counted and filtered
ScanMessage ==
  /\ pc = "stream" /\ ci <= Len(Channels) /\ mi <= Len(CurHistory)
  /\ total_seen' = total_seen + 1
  /\ IF CurMsg.attachments = <<>> \/ ~InWindow(msg_created_utc, start_dt, end_dt)
     THEN /\ mi' = mi + 1
          /\ UNCHANGED <<pc, ai>>
     ELSE /\ pc' = "att"
          /\ ai' = 1
          /\ UNCHANGED mi
  /\ outcome' = NoOutcome
  /\ UNCHANGED <<db, disk, conn, start_dt, end_dt, ci, total_downloaded, total_skipped,
                 failed, chanFailed, prev, summary, reached, fresh, other, probe>>

\* the stream of the channel is exhausted: next channel
EndChannel ==
  /\ pc = "stream" /\ ci <= Len(Channels) /\ mi > Len(CurHistory)
  /\ ci' = ci + 1 /\ mi' = 1
  /\ outcome' = NoOutcome
  /\ UNCHANGED <<db, disk, conn, pc, start_dt, end_dt, ai,
                 total_seen, total_downloaded, total_skipped,
                 failed, chanFailed, prev, summary, reached, fresh, other, probe>>

\* the except clauses of the per-channel try
Caught(exc) == exc \in {"Forbidden", "HTTPException"}

\* faulty variant: the try encloses the channel loop, a caught exception ends
\* the scan of all remaining channels
ChannelError_EndsScan(exc) ==
  /\ pc = "stream" /\ ci <= Len(Channels)
  /\ Caught(exc)
  /\ ci' = Len(Channels) + 1 /\ mi' = 1
  /\ chanFailed' = chanFailed \cup {ci}
  /\ outcome' = NoOutcome
  /\ UNCHANGED <<db, disk, conn, pc, start_dt, end_dt, ai,
                 total_seen, total_downloaded, total_skipped, failed, prev, summary, reached, fresh, other, probe>>

\* fetching from the stream raises an exception the per-channel try catches
ChannelError(exc) ==
  /\ pc = "stream" /\ ci <= Len(Channels)
  /\ Caught(exc)
  /\ ci' = ci + 1 /\ mi' = 1
  /\ chanFailed' = chanFailed \cup {ci}
  /\ outcome' = NoOutcome
  /\ UNCHANGED <<db, disk, conn, pc, start_dt, end_dt, ai,
                 total_seen, total_downloaded, total_skipped, failed, prev, summary, reached, fresh, other, probe>>

\* fetching from the stream raises any other exception: it leaves on_ready
HandlerAbort(exc) ==
  /\ pc = "stream" /\ ci <= Len(Channels)
  /\ ~Caught(exc)
  /\ pc' = "aborted"
  /\ Forget
  /\ UNCHANGED <<db, disk, conn>>

\* for att in msg.attachments is exhausted: back to the stream
EndMessage ==
  /\ pc = "att" /\ ai > Len(CurMsg.attachments)
  /\ pc' = "stream" /\ mi' = mi + 1 /\ ai' = 0
  /\ outcome' = NoOutcome
  /\ UNCHANGED <<db, disk, conn, start_dt, end_dt, ci,
                 total_seen, total_downloaded, total_skipped,
                 failed, chanFailed, prev, summary, reached, fresh, other, probe>>

InsertCurrent ==
  db_insert(db.rows, CurAtt.id, CurMsg.id, CurChannel.id, Guild.id, CurAtt.url,
            safe_name, msg_created_utc)

\* if not is_media(att): continue
NotMedia ==
  /\ ai' = ai + 1
  /\ outcome' = [kind |-> "notmedia", att |-> CurAtt.id]
  /\ UNCHANGED <<db, pc, total_skipped>>

\* faulty variant: the manifest hit does not skip, the attachment is saved again
SkipPresent_Refetch ==
  /\ pc' = "saving"
  /\ outcome' = [kind |-> "save", att |-> CurAtt.id]
  /\ UNCHANGED <<db, ai, total_skipped>>

\* faulty variant: the manifest hit is skipped without being counted
SkipPresent_NoCount ==
  /\ ai' = ai + 1
  /\ outcome' = [kind |-> "hit", att |-> CurAtt.id]
  /\ UNCHANGED <<db, pc, total_skipped>>

\* if db_has_attachment(conn, att.id): total_skipped += 1; continue
SkipPresent ==
  /\ total_skipped' = total_skipped + 1
  /\ ai' = ai + 1
  /\ outcome' = [kind |-> "hit", att |-> CurAtt.id]
  /\ UNCHANGED <<db, pc>>

\* faulty variant: the existing file is skipped without a manifest row
Repair_NoInsert ==
  /\ total_skipped' = total_skipped + 1
  /\ ai' = ai + 1
  /\ outcome' = [kind |-> "repair", att |-> CurAtt.id]
  /\ UNCHANGED <<db, pc>>

\* if dest.exists(): db_insert(...); total_skipped += 1; continue
Repair ==
  /\ db' = [db EXCEPT !.rows = InsertCurrent]
  /\ total_skipped' = total_skipped + 1
  /\ ai' = ai + 1
  /\ outcome' = [kind |-> "repair", att |-> CurAtt.id]
  /\ UNCHANGED pc

\* faulty variant: the row is inserted before the bytes are saved
CallSave_InsertFirst ==
  /\ db' = [db EXCEPT !.rows = InsertCurrent]
  /\ pc' = "saving"
  /\ outcome' = [kind |-> "save", att |-> CurAtt.id]
  /\ UNCHANGED <<ai, total_skipped>>

\* await att.save(dest): the call, the handler is suspended
CallSave ==
  /\ pc' = "saving"
  /\ outcome' = [kind |-> "save", att |-> CurAtt.id]
  /\ UNCHANGED <<db, ai, total_skipped>>

\* one attachment, up to the call of save: classify, manifest check, disk check
CheckAttachment ==
  /\ pc = "att" /\ ai <= Len(CurMsg.attachments)
  /\ IF ~is_media(CurAtt) THEN NotMedia
     ELSE IF db_has_attachment(db.rows, CurAtt.id) THEN SkipPresent
     ELSE IF dest_exists(disk, safe_name) THEN Repair
     ELSE CallSave
  /\ reached' = IF is_media(CurAtt) THEN reached + 1 ELSE reached
  /\ UNCHANGED <<disk, conn, start_dt, end_dt, ci, mi, total_seen, total_downloaded,
                 failed, chanFailed, prev, summary, fresh, other, probe>>

\* faulty variant: save returns without a file at the destination
SaveOk_NoFile ==
  /\ pc = "saving"
  /\ disk' = disk
  /\ pc' = "saved"
  /\ UNCHANGED <<db, conn, start_dt, end_dt, ci, mi, ai,
                 total_seen, total_downloaded, total_skipped,
                 outcome, failed, chanFailed, prev, summary, reached, fresh, other, probe>>

\* await att.save(dest) returns: the bytes are in the file
SaveOk ==
  /\ pc = "saving"
  /\ disk' = WriteFile(disk, safe_name, CurAtt.id, TRUE)
  /\ pc' = "saved"
  /\ UNCHANGED <<db, conn, start_dt, end_dt, ci, mi, ai,
                 total_seen, total_downloaded, total_skipped,
                 outcome, failed, chanFailed, prev, summary, reached, fresh, other, probe>>

\* faulty variant: the row is inserted but the download is not counted
Record_NoCount ==
  /\ pc = "saved"
  /\ db' = [db EXCEPT !.rows = InsertCurrent]
  /\ total_downloaded' = total_downloaded
  /\ ai' = ai + 1
  /\ pc' = "att"
  /\ outcome' = [kind |-> "saved", att |-> CurAtt.id]
  /\ fresh' = fresh + 1
  /\ UNCHANGED <<disk, conn, start_dt, end_dt, ci, mi, total_seen, total_skipped,
                 failed, chanFailed, prev, summary, reached, other, probe>>

\* after save: db_insert, then total_downloaded += 1
Record ==
  /\ pc = "saved"
  /\ db' = [db EXCEPT !.rows = InsertCurrent]
  /\ total_downloaded' = total_downloaded + 1
  /\ ai' = ai + 1
  /\ pc' = "att"
  /\ outcome' = [kind |-> "saved", att |-> CurAtt.id]
  /\ fresh' = fresh + 1
  /\ UNCHANGED <<disk, conn, start_dt, end_dt, ci, mi, total_seen, total_skipped,
                 failed, chanFailed, prev, summary, reached, other, probe>>

\* faulty variant: the exception of save is not caught per attachment and
\* ends the scan of the channel
SaveError_AbortsChannel(cause) ==
  /\ pc = "saving"
  /\ disk' = IF cause = "write" THEN WriteFile(disk, safe_name, CurAtt.id, FALSE) ELSE disk
  /\ failed' = failed \cup {CurAtt.id}
  /\ ci' = ci + 1 /\ mi' = 1 /\ ai' = 0
  /\ pc' = "stream"
  /\ outcome' = [kind |-> "failed", att |-> CurAtt.id]
  /\ UNCHANGED <<db, conn, start_dt, end_dt,
                 total_seen, total_downloaded, total_skipped, chanFailed, prev, summary, reached, fresh, other, probe>>

\* faulty variant: the failed save is counted as a download
SaveError_CountsDownload(cause) ==
  /\ pc = "saving"
  /\ disk' = IF cause = "write" THEN WriteFile(disk, safe_name, CurAtt.id, FALSE) ELSE disk
  /\ failed' = failed \cup {CurAtt.id}
  /\ total_downloaded' = total_downloaded + 1
  /\ ai' = ai + 1
  /\ pc' = "att"
  /\ outcome' = [kind |-> "failed", att |-> CurAtt.id]
  /\ UNCHANGED <<db, conn, start_dt, end_dt, ci, mi,
                 total_seen, total_skipped, chanFailed, prev, summary, reached, fresh, other, probe>>

\* await att.save(dest) raises: the transfer fails before the file is opened
\* ("network"), or writing fails after open(dest, "wb") created it ("write")
SaveError(cause) ==
  /\ pc = "saving"
  /\ disk' = IF cause = "write" THEN WriteFile(disk, safe_name, CurAtt.id, FALSE) ELSE disk
  /\ failed' = failed \cup {CurAtt.id}
  /\ ai' = ai + 1
  /\ pc' = "att"
  /\ outcome' = [kind |-> "failed", att |-> CurAtt.id]
  /\ UNCHANGED <<db, conn, start_dt, end_dt, ci, mi,
                 total_seen, total_downloaded, total_skipped, chanFailed, prev, summary, reached, fresh, other, probe>>

\* all channels done: print the summary, close the connection and the client;
\* client.start returns and asyncio.run cancels whatever task is left
Summary ==
  /\ pc = "stream" /\ ci > Len(Channels)
  /\ summary' = <<total_seen, total_downloaded, total_skipped>>
  /\ pc' = "done"
  /\ conn' = "closed"
  /\ ci' = 0 /\ mi' = 0
  /\ outcome' = NoOutcome
  /\ other' = NoOther
  /\ UNCHANGED <<db, disk, start_dt, end_dt, ai,
                 total_seen, total_downloaded, total_skipped,
                 failed, chanFailed, prev, reached, fresh, probe>>

\* the process dies (kill, power loss) at any point of a run; a save in
\* flight may have left nothing or a truncated file
Crash ==
  /\ pc \in {"connecting"} \cup Scanning
  /\ pc' = "crashed"
  /\ \/ UNCHANGED disk
     \/ /\ pc = "saving"
        /\ disk' = WriteFile(disk, safe_name, CurAtt.id, FALSE)
  /\ Forget
  /\ UNCHANGED <<db, conn>>

\* KeyboardInterrupt: asyncio.run cancels the tasks at their await
Interrupt ==
  /\ pc \in {"connecting", "stream", "saving"}
  /\ pc' = "interrupted"
  /\ Forget
  /\ UNCHANGED <<db, disk, conn>>

Steps ==
  \/ StartFatal
  \/ LoginFailure
  \/ OnReadyNoGuild
  \/ OnReady
  \/ ScanMessage
  \/ EndChannel
  \/ \E exc \in {"Forbidden", "HTTPException", "OSError"} : ChannelError(exc)
  \/ \E exc \in {"Forbidden", "HTTPException", "OSError"} : HandlerAbort(exc)
  \/ EndMessage
  \/ CheckAttachment
  \/ SaveOk
  \/ Record
  \/ \E cause \in {"network", "write"} : SaveError(cause)
  \/ Summary
  \/ Crash
  \/ Interrupt

Next == Start(FALSE) \/ Steps

Spec == Init /\ [][Next]_vars

\* the same program, with the history variable prev kept from run to run
NextRuns == Start(TRUE) \/ Steps

SpecRuns == Init /\ [][NextRuns]_vars

\* ------------------------------------ on_ready dispatched more than once
\* the locals of the activation of on_ready that is running
Locals ==
  [pc |-> pc, ci |-> ci, mi |-> mi, ai |-> ai, total_seen |-> total_seen,
   total_downloaded |-> total_downloaded, total_skipped |-> total_skipped]

\* the activation is suspended: it awaits the history or the save
Awaiting == (pc = "stream" /\ ci <= Len(Channels)) \/ pc = "saving"

\* client.start reconnects: when the gateway session is identified anew the
\* client dispatches ready again and a second task runs on_ready from its
\* first line, with locals of its own, while the first is suspended
OnReadyAgain ==
  /\ Awaiting /\ other = NoOther
  /\ other' = Locals
  /\ pc' = "stream"
  /\ ci' = 1 /\ mi' = 1 /\ ai' = 0
  /\ total_seen' = 0 /\ total_downloaded' = 0 /\ total_skipped' = 0
  /\ UNCHANGED <<db, disk, conn, start_dt, end_dt, outcome, failed, chanFailed,
                 prev, summary, reached, fresh, probe>>

\* the event loop: the running activation awaits, the other one is resumed
Switch ==
  /\ Awaiting /\ other # NoOther
  /\ other' = Locals
  /\ pc' = other.pc
  /\ ci' = other.ci /\ mi' = other.mi /\ ai' = other.ai
  /\ total_seen' = other.total_seen
  /\ total_downloaded' = other.total_downloaded
  /\ total_skipped' = other.total_skipped
  /\ UNCHANGED <<db, disk, conn, start_dt, end_dt, outcome, failed, chanFailed,
                 prev, summary, reached, fresh, probe>>

\* the runs in which nothing fails, with the second dispatch of ready
NextReady ==
  \/ Start(FALSE)
  \/ OnReady
  \/ OnReadyAgain
  \/ Switch
  \/ ScanMessage
  \/ EndChannel
  \/ EndMessage
  \/ CheckAttachment
  \/ SaveOk
  \/ Record
  \/ Summary

SpecReady == Init /\ [][NextReady]_vars

\* ------------------------------ the manifest functions, applied directly
\* the arguments a direct call of db_insert is given
InsertArgs ==
  [attachment_id : {11, 12, 15}, message_id : {21, 23},
   filename : {<<3, "mp4">>, <<1, "png">>}]

\* conn = sqlite3.connect(DB_PATH); db_init(conn)
ManifestInit ==
  /\ pc = "idle"
  /\ db' = db_init(db)
  /\ conn' = "open"
  /\ probe' = [op |-> "db_init"]
  /\ UNCHANGED <<disk, pc, start_dt, end_dt, ci, mi, ai,
                 total_seen, total_downloaded, total_skipped,
                 outcome, failed, chanFailed, prev, summary, reached, fresh, other>>

\* db_insert(conn, ...) on the open connection, whatever the table holds
ManifestInsert ==
  /\ pc = "idle" /\ conn = "open" /\ db.created
  /\ \E a \in InsertArgs :
       /\ db' = [db EXCEPT !.rows =
                   db_insert(db.rows, a.attachment_id, a.message_id, 31, Guild.id,
                             <<"cdn", a.attachment_id>>, a.filename, Day)]
       /\ probe' = [op |-> "db_insert", args |-> a,
                    present |-> db_has_attachment(db.rows, a.attachment_id)]
  /\ UNCHANGED <<disk, conn, pc, start_dt, end_dt, ci, mi, ai,
                 total_seen, total_downloaded, total_skipped,
                 outcome, failed, chanFailed, prev, summary, reached, fresh, other>>

NextManifest == ManifestInit \/ ManifestInsert

SpecManifest == Init /\ [][NextManifest]_vars

\* --------------------------------------------- is_media, applied directly
\* content types and file names an attachment can carry
ContentTypes ==
  {<<>>, <<"image", "png">>, <<"IMAGE", "png">>, <<"video", "mp4">>, <<"Video", "mp4">>,
   <<"application", "pdf">>, <<"text", "plain">>, <<"image">>, <<"imagery", "png">>}
FileNames ==
  {<<"a", e>> : e \in image_exts \cup video_exts \cup
                       {"PNG", "MP4", "JPG", "pdf", "zip", "txt", ""}}
    \cup {<<"blob">>, <<"", "png">>, <<"a", "tar", "gz">>, <<"a", "png", "zip">>,
          <<"a", "zip", "png">>}

\* is_media(att) for an attachment of any content type and file name
Classify ==
  /\ pc = "idle"
  /\ \E ct \in ContentTypes, fn \in FileNames :
       probe' = [op |-> "is_media", content_type |-> ct, filename |-> fn,
                 result |-> is_media(Att(0, fn, ct))]
  /\ UNCHANGED <<db, disk, conn, pc, start_dt, end_dt, ci, mi, ai,
                 total_seen, total_downloaded, total_skipped,
                 outcome, failed, chanFailed, prev, summary, reached, fresh, other>>

\* the program, and is_media applied to attachments the guild does not hold
NextClassify == Next \/ Classify

SpecClassify == Init /\ [][NextClassify]_vars

TypeOK ==
  /\ db.created \in BOOLEAN
  /\ pc \in Stopped \cup Scanning \cup {"connecting"}
  /\ conn \in {"none", "open", "closed"}
  /\ total_seen \in Nat /\ total_downloaded \in Nat /\ total_skipped \in Nat
  /\ reached \in Nat /\ fresh \in Nat
  /\ summary \in {<<>>} \cup (Nat \X Nat \X Nat)
  /\ other.pc \in {"off", "stream", "saving"}

\* ------------------------------------------------------------- properties
Range(q) == {q[i] : i \in 1..Len(q)}

\* the manifest rows of an attachment id, the recorded names, the file names
RowsOf(id) == {r \in db.rows : r.attachment_id = <<"str", id>>}
ManifestNames == {r.filename : r \in db.rows}
DiskNames == {f.name : f \in disk}

\* the media attachments of the messages of channel number c (of Channels)
\* whose timestamp lies in the inclusive window of the run
EligibleIn(c) ==
  UNION { {a.id : a \in {x \in Range(m.attachments) : is_media(x)}} :
          m \in {y \in Range(Channels[c].messages) :
                   start_dt <= y.created_at /\ y.created_at <= end_dt} }
Eligible == UNION {EligibleIn(c) : c \in 1..Len(Channels)}

\* C1: save is never invoked for an attachment whose id is in the manifest:
\* while a save is in flight or has just returned, the manifest holds no row
\* for the attachment, and an attachment found in the manifest is skipped,
\* counted as already downloaded, with manifest and directory untouched.
C1_NoRefetch ==
  /\ [](pc \in {"saving", "saved"} => RowsOf(CurAtt.id) = {})
  /\ [][(/\ pc = "att" /\ ai <= Len(CurMsg.attachments)
         /\ is_media(CurAtt) /\ RowsOf(CurAtt.id) # {}
         /\ pc' # "crashed")
        => (/\ pc' = "att" /\ ai' = ai + 1
            /\ total_skipped' = total_skipped + 1
            /\ total_downloaded' = total_downloaded
            /\ db' = db /\ disk' = disk)]_vars

C1_Witness == outcome.kind = "hit" /\ total_skipped > 0

C3_Original == pc = "crashed" => ManifestNames = DiskNames

\* C3 amended: at a crash every file name recorded in the manifest names a
\* file of the download directory, the crash loses no committed row, and the
\* only file the crash itself can add is that of the save in flight; the
\* directory may hold files that have no row.
C3_CrashConsistent ==
  /\ [](pc = "crashed" => ManifestNames \subseteq DiskNames)
  /\ [][(pc # "crashed" /\ pc' = "crashed")
        => /\ db' = db
           /\ \A f \in disk' \ disk : pc = "saving" /\ f.name = safe_name]_vars

C3_Witness ==
  /\ pc = "crashed"
  /\ ManifestNames # {}
  /\ ManifestNames # DiskNames

\* C4: disk repair.  A media attachment of an accepted message that has no
\* manifest row while a file exists at its derived name is not saved: the
\* directory is unchanged, a row is inserted so that the manifest holds
\* exactly one row for its id, naming the file, and it is counted as skipped.
C4_DiskRepair ==
  [][(/\ pc = "att" /\ ai <= Len(CurMsg.attachments)
      /\ is_media(CurAtt) /\ RowsOf(CurAtt.id) = {}
      /\ safe_name \in DiskNames
      /\ pc' # "crashed")
     => (/\ pc' = "att" /\ ai' = ai + 1
         /\ disk' = disk
         /\ total_skipped' = total_skipped + 1
         /\ total_downloaded' = total_downloaded
         /\ \E r \in db'.rows :
              /\ db'.rows = db.rows \cup {r}
              /\ r.attachment_id = <<"str", CurAtt.id>>
              /\ r.filename = safe_name
              /\ \A q \in db'.rows : q.attachment_id = r.attachment_id => q = r)]_vars

C4_Witness ==
  /\ outcome.kind = "repair"
  /\ Cardinality(RowsOf(outcome.att)) = 1
  /\ total_skipped > 0

\* C5: partial-failure isolation.  When save raises, the handler goes on with
\* the next attachment of the same message in the same channel, and a run
\* that meets no channel failure ends with every eligible attachment but the
\* failed ones recorded and with downloaded + skipped counting exactly those.
C5_FailureIsolated ==
  /\ [][(pc = "saving" /\ pc' = "att")
        => (ci' = ci /\ mi' = mi /\ ai' = ai + 1 /\ total_seen' = total_seen)]_vars
  /\ []((pc = "done" /\ chanFailed = {})
        => /\ failed \subseteq Eligible
           /\ \A a \in Eligible \ failed : RowsOf(a) # {}
           /\ total_downloaded + total_skipped = Cardinality(Eligible \ failed))

C5_Witness ==
  /\ pc = "done" /\ chanFailed = {}
  /\ failed = {11, 12}
  /\ RowsOf(15) # {}
  /\ total_downloaded + total_skipped = 1

\* C6: a failed save leaves the manifest and both counters as they were, and
\* an attachment whose save failed in this run has no manifest row.
C6_FailureLeavesNoTrace ==
  /\ [][(pc = "saving" /\ pc' = "att")
        => (/\ db' = db
            /\ total_downloaded' = total_downloaded
            /\ total_skipped' = total_skipped)]_vars
  /\ [](\A a \in failed : RowsOf(a) = {})

C6_Witness ==
  /\ outcome.kind = "failed"
  /\ outcome.att \in failed
  /\ total_downloaded > 0

\* C7 as stated: an attachment whose save failed in the run completed just
\* before, over the same window, is fetched again by this run: it is never
\* skipped as a manifest hit or repaired from the disk.
C7_RetriedNextRun ==
  outcome.kind \in {"hit", "repair"} => outcome.att \notin prev.failed

C9_WindowFilter ==
  /\ [][(/\ pc \in Scanning
         /\ (db'.rows # db.rows \/ disk' # disk \/ (pc # "saving" /\ pc' = "saving")))
        => (start_dt <= CurMsg.created_at /\ CurMsg.created_at <= end_dt)]_vars
  /\ [][(/\ pc = "stream" /\ total_seen' = total_seen + 1
         /\ CurMsg.attachments # <<>>)
        => (pc' = "att"
              <=> (start_dt <= CurMsg.created_at /\ CurMsg.created_at <= end_dt))]_vars

\* the window of day 1: the message just before start_dt is streamed and
\* rejected, the message at start_dt is accepted and its media saved
C9_Witness ==
  /\ pc = "done"
  /\ start_dt = Day /\ end_dt = 2 * Day - 1
  /\ total_seen = 4
  /\ total_downloaded = 2
  /\ RowsOf(11) = {} /\ RowsOf(12) # {} /\ RowsOf(15) # {}

\* C10: the query bounds are start_dt - 1s and end_dt + 1s; used as
\* exclusive bounds they lose no instant of the inclusive window,
\* and every in-window message of a channel is in the stream of that channel.
C10_PaddingKeepsWindow ==
  (pc \in Scanning \cup {"connecting", "done"})
    => /\ after = start_dt - Second /\ before = end_dt + Second
       /\ \A t \in start_dt..end_dt : after < t /\ t < before
       /\ \A c \in Range(Channels) : \A m \in Range(c.messages) :
            (start_dt <= m.created_at /\ m.created_at <= end_dt)
              => m \in Range(bounded_history(c, after, before))

C10_Witness ==
  /\ pc = "att" /\ ci = 2
  /\ start_dt = Day
  /\ CurMsg.created_at = end_dt
  /\ RowsOf(12) # {}

\* C11: an insert whose attachment_id is already present changes nothing, an
\* insert of a new id adds exactly the record given; so the manifest holds at
\* most one record per attachment_id, and it carries the fields of the first
\* insert.
C11_InsertIdempotent ==
  /\ [](\A r1, r2 \in db.rows : r1.attachment_id = r2.attachment_id => r1 = r2)
  /\ [][(probe'.op = "db_insert")
        => LET a == probe'.args
               key == <<"str", a.attachment_id>>
           IN IF \E r \in db.rows : r.attachment_id = key
              THEN db' = db
              ELSE \E r \in db'.rows :
                     /\ r.attachment_id = key
                     /\ r.message_id = <<"str", a.message_id>>
                     /\ r.filename = a.filename
                     /\ db'.rows = db.rows \cup {r}]_vars

C11_Witness ==
  /\ probe.op = "db_insert" /\ probe.present
  /\ \E r \in db.rows :
       /\ r.attachment_id = <<"str", probe.args.attachment_id>>
       /\ r.filename # probe.args.filename
       /\ r.message_id # <<"str", probe.args.message_id>>
  /\ Cardinality(RowsOf(probe.args.attachment_id)) = 1

\* C12: the manifest only grows: no step of any run, the table setup at the
\* start of a run included, removes a record or changes a field of one, and
\* the table once created stays.
C12_ManifestOnlyGrows ==
  [][(\A r \in db.rows : r \in db'.rows) /\ (db.created => db'.created)]_vars

C12_Witness == pc = "connecting" /\ Cardinality(db.rows) >= 2

\* the startup errors of a run, read off its arguments and environment
BadStart(args) ==
  \/ ~args.date_start.wellformed
  \/ (args.date_end.day >= 0 /\ ~args.date_end.wellformed)
  \/ (args.date_end.day >= 0 /\ args.date_end.day < args.date_start.day)
  \/ args.env \in {"missing", "nonint"}

\* C13: a run whose date strings are malformed or out of order, or whose
\* credential or guild id is missing or not an integer, stops at once, and a
\* run whose guild is not accessible stops when the handler starts; either
\* way no channel has been scanned, no file written, no manifest record
\* inserted and no summary printed, and only a run without such an error
\* goes on to connect.
C13_FatalStartupAborts ==
  /\ [][(pc \in Stopped /\ probe'.op = "run" /\ pc' \in {"fatal", "connecting"})
        => IF BadStart(probe')
           THEN pc' = "fatal" /\ db' = db /\ disk' = disk
           ELSE pc' = "connecting" /\ start_dt' <= end_dt']_vars
  /\ [][(pc' \in {"fatal", "noguild"})
        => (/\ pc \in Stopped \cup {"connecting"}
            /\ db'.rows = db.rows /\ disk' = disk)]_vars
  /\ [](pc \in {"fatal", "noguild"}
        => (/\ summary = <<>> /\ total_seen = 0 /\ reached = 0 /\ fresh = 0
            /\ ci = 0))

C13_Witness ==
  /\ pc = "fatal" /\ probe.op = "run"
  /\ probe.env = "ok" /\ probe.date_start.wellformed
  /\ probe.date_end.day >= 0 /\ probe.date_end.day < probe.date_start.day
  /\ db.rows # {} /\ summary = <<>>

\* C14: a run ended by an external interrupt has closed the manifest
\* connection and has printed the three counters for what it completed.
C14_InterruptReports ==
  pc = "interrupted" => (conn = "closed" /\ summary # <<>>)

\* the attachment a suspended activation is saving
OtherAtt ==
  bounded_history(Channels[other.ci], after, before)[other.mi].attachments[other.ai]

\* C15: at most one save is in flight at any time, and no second activation
\* of the handler has a save in flight for the attachment the running
\* activation is saving or recording.
C15_OneSaveInFlight ==
  /\ ~(pc = "saving" /\ other.pc = "saving")
  /\ (pc \in {"saving", "saved"} /\ other.pc = "saving") => OtherAtt.id # CurAtt.id

\* C16: a scan that has ended, at the end of the channel loop or on a failure
\* met while a channel was processed, has reported the summary of the three
\* counters and has closed the manifest connection.
C16_EndedScanReported ==
  pc \in {"done", "aborted"} => (summary # <<>> /\ conn = "closed")

\* the content types that begin with image/ or video/ whatever the case of
\* their letters, and the file names whose extension is, whatever the case
\* of its letters, one of the allow-list
MediaTypes ==
  {<<"image", "png">>, <<"IMAGE", "png">>, <<"video", "mp4">>, <<"Video", "mp4">>,
   <<"image", "gif">>}
MediaNames ==
  {<<"a", e>> : e \in {"jpg", "jpeg", "png", "gif", "webp", "bmp", "tiff", "heic",
                        "mp4", "mov", "m4v", "webm", "mkv", "avi",
                        "PNG", "MP4", "JPG"}}
    \cup {<<"a", "zip", "png">>, <<"clip", "MP4">>, <<"movie", "mp4">>, <<"x", "gif">>}
TreatedAsMedia(content_type, filename) ==
  content_type \in MediaTypes \/ filename \in MediaNames

\* C17: is_media accepts an attachment exactly when its content type begins
\* with image/ or video/ or its file name has an extension of the allow-list,
\* letter case ignored; and the scan passes over an attachment that is not
\* media without saving, recording or repairing it and without changing a
\* counter.
C17_MediaOnly ==
  /\ [](probe.op = "is_media"
        => (probe.result <=> TreatedAsMedia(probe.content_type, probe.filename)))
  /\ [][(/\ pc = "att" /\ ai <= Len(CurMsg.attachments)
         /\ pc' # "crashed")
        => IF TreatedAsMedia(CurAtt.content_type, CurAtt.filename)
           THEN outcome'.kind \in {"hit", "repair", "save"}
           ELSE /\ outcome'.kind = "notmedia"
                /\ pc' = "att" /\ ai' = ai + 1
                /\ db' = db /\ disk' = disk
                /\ total_downloaded' = total_downloaded
                /\ total_skipped' = total_skipped]_vars
  /\ [](\A r \in db.rows : \E a \in {A1, A2, A5} : r.attachment_id = <<"str", a.id>>)
  /\ [](\A f \in disk : f.src \in {A1.id, A2.id, A5.id})

C17_Witness ==
  /\ outcome.kind = "notmedia" /\ outcome.att = A4.id
  /\ total_downloaded > 0 /\ Cardinality(db.rows) = 3

\* C18: when the file name derived for an attachment without a manifest row
\* is the name of a file written for another attachment, the attachment is
\* not fetched: the file is left as it is, a manifest row for the attachment
\* is inserted with that file name, and the attachment is counted as skipped;
\* no save is ever in flight for an attachment recorded in this way.
C18_CollisionMisattributes ==
  /\ [][(/\ pc = "att" /\ ai <= Len(CurMsg.attachments)
         /\ is_media(CurAtt) /\ RowsOf(CurAtt.id) = {}
         /\ \E f \in disk : f.name = safe_name /\ f.src # CurAtt.id
         /\ pc' # "crashed")
        => (/\ pc' = "att" /\ ai' = ai + 1
            /\ disk' = disk
            /\ total_skipped' = total_skipped + 1
            /\ total_downloaded' = total_downloaded
            /\ \E r \in db'.rows :
                 /\ r.attachment_id = <<"str", CurAtt.id>>
                 /\ r.filename = safe_name
                 /\ db'.rows = db.rows \cup {r})]_vars
  /\ [](pc \in {"saving", "saved"}
        => ~\E r \in db.rows, f \in disk :
              /\ r.attachment_id = <<"str", CurAtt.id>>
              /\ f.name = r.filename /\ f.src # CurAtt.id)

C18_Witness ==
  /\ outcome.kind = "repair" /\ outcome.att = A5.id
  /\ \E r \in RowsOf(A5.id), f \in disk :
       f.name = r.filename /\ f.src = A1.id /\ f.complete
  /\ RowsOf(A1.id) # {}

\* C19: in every state every manifest record names a file of the download
\* directory, since a step that adds a record either follows a save that has
\* returned or finds the destination file in place; a file may be there
\* without a record.
C19_RecordedFileExists ==
  /\ [](\A r \in db.rows : \E f \in disk : f.name = r.filename)
  /\ [][(db'.rows # db.rows)
        => (/\ \E f \in disk : f.name = safe_name
            /\ \A r \in db'.rows \ db.rows : r.filename = safe_name
            /\ disk' = disk)]_vars

C19_Witness ==
  /\ pc = "saved" /\ db.rows # {}
  /\ \E f \in disk : f.name = safe_name /\ f.name \notin ManifestNames

====
